---- MODULE Spec2Model ----
(***************************************************************************)
(* PM2.5 forecast assessment: the Forecast cache lifecycle                 *)
(* (daydataclass.py), the spatial matchers (airnow.py, hrrr.py), the HRRR  *)
(* grid index codec, the metrics (metrics.py) and the Experiment           *)
(* orchestrator (experiment.py).                                           *)
(*                                                                         *)
(* Coordinates are integers counting 1e-7 degree, so that formatting with  *)
(* "%.6f" is a real rounding.  Great-circle distance is replaced by the    *)
(* rectilinear distance on a locally flat patch, which is exact for two    *)
(* points on one meridian (up to the rational value used for pi).          *)
(***************************************************************************)
EXTENDS Integers, Sequences, FiniteSets, TLC

VARIABLES rawFile, locFile, idxFile, resFile, ent, exp, last,
          hours_to_include, arg, ret

vars == <<rawFile, locFile, idxFile, resFile, ent, exp, last,
          hours_to_include, arg, ret>>
\* the hours_to_include field of the metric objects, and the arguments and
\* the return value of the last direct call of a function
call == <<hours_to_include, arg, ret>>

(***************************************************************************)
(* Bounds of the model.                                                    *)
(***************************************************************************)
\* calendar days 1..MaxDate
MaxDate == 2
\* days per calendar month (days 1..MonthLen are one month, and so on)
MonthLen == 2
\* Forecast objects a caller holds at the same time
NumEntities == 2
\* hours in the evaluation window (hours_to_include)
WindowLen == 2

(***************************************************************************)
(* Program constants.                                                      *)
(***************************************************************************)
EarthRadiusKm == 6371
AirNowMaxDistance == 50
AirNowMaxNeighbors == 10
CAMSMaxDistance == 60
GEOSCFMaxDistance == 50
NAQFCMaxDistance == 50
HRRRMaxDistance == 50
WindowStart == 13
persistence_hour == 11

Sources == {"airnow", "cams", "geoscf", "naqfc", "hrrr"}
Dates == 1 .. MaxDate
MonthOf(d) == (d - 1) \div MonthLen
\* the hours of the window the providers publish
PublishedWindow == [i \in 1 .. WindowLen |-> WindowStart + i - 1]

Abs(x) == IF x < 0 THEN -x ELSE x
Range(f) == {f[i] : i \in DOMAIN f}

\* coordinate units (1e-7 degree) per kilometre along a meridian:
\* 1e7 * 180 / (pi * 6371), with pi = 355/113
UnitsPerKm == ((1800000 * 113) \div (355 * EarthRadiusKm)) * 1000

(***************************************************************************)
(* The gazetteer: get_lat_lon returns the coordinates of a name it finds,  *)
(* and prints a suggestion and returns None for a name it does not find.   *)
(***************************************************************************)
Locations == {"Boston", "Albany", "Bostn"}
NoCoords == [found |-> FALSE, lat |-> 0, lon |-> 0]
get_lat_lon(city_name) ==
    CASE city_name = "Boston" -> [found |-> TRUE, lat |-> 0, lon |-> 0]
      [] city_name = "Albany" -> [found |-> TRUE, lat |-> 200 * UnitsPerKm, lon |-> 0]
      [] OTHER -> NoCoords

(***************************************************************************)
(* Files and values.  A csv file is absent or holds a Reading Set (a       *)
(* sequence of rows); an attribute of a Forecast is None or a Reading Set. *)
(***************************************************************************)
Absent == [exists |-> FALSE, rows |-> <<>>]
File(rows) == [exists |-> TRUE, rows |-> rows]
None == [set |-> FALSE, rows |-> <<>>]
Some(rows) == [set |-> TRUE, rows |-> rows]
Ok(rows) == [ok |-> TRUE, rows |-> rows, err |-> ""]
Err(name) == [ok |-> FALSE, rows |-> <<>>, err |-> name]

RawKey(e) == <<e.name, e.date>>
LocKey(e) == <<e.name, e.location, e.date>>
RawKeys == Sources \X Dates
LocKeys == Sources \X Locations \X Dates

(***************************************************************************)
(* What the providers publish: a fixed Reading Set for every source and    *)
(* day.  Some days are published with the last hour of the window missing. *)
(***************************************************************************)
Gap(s, d) == (s = "geoscf" /\ d % 2 = 1) \/ (s = "hrrr" /\ d % 2 = 0)

\* the grid of the gridded sources: 0, 50, 55 and 150 km north of Boston
GridPoints ==
    << [lat |-> 4, lon |-> -3],
       [lat |-> 50 * UnitsPerKm - 4, lon |-> 3],
       [lat |-> 55 * UnitsPerKm, lon |-> 0],
       [lat |-> 150 * UnitsPerKm, lon |-> 4] >>

\* the AirNow stations: station k lies 8k km north of Boston
NumStations == AirNowMaxNeighbors + 1
StationPoint(k) == [lat |-> 8 * k * UnitsPerKm, lon |-> 0]

PMValue(s, d, h, p) ==
    LET base == CASE s = "airnow" -> 20
                  [] s = "cams" -> 24
                  [] s = "geoscf" -> 12
                  [] s = "naqfc" -> 30
                  [] OTHER -> 18
    IN  base + 3 * d + ((5 * h + 7 * p) % 11)

PublishedHours(s, d) ==
    LET all == IF s = "airnow" THEN <<persistence_hour>> \o PublishedWindow
               ELSE PublishedWindow
    IN  IF Gap(s, d) THEN SubSeq(all, 1, Len(all) - 1) ELSE all

\* the rows of one hour, one row per point
HourRows(s, d, h) ==
    IF s = "airnow"
    THEN [k \in 1 .. NumStations |->
            [AQSID |-> k, Latitude |-> StationPoint(k).lat,
             Longitude |-> StationPoint(k).lon, ValidTime |-> h,
             PM25 |-> PMValue(s, d, h, k)]]
    ELSE [k \in 1 .. Len(GridPoints) |->
            [Latitude |-> GridPoints[k].lat, Longitude |-> GridPoints[k].lon,
             ValidTime |-> h, PM25 |-> PMValue(s, d, h, k)]]

RECURSIVE ConcatHours(_, _, _)
ConcatHours(s, d, hs) ==
    IF hs = <<>> THEN <<>>
    ELSE HourRows(s, d, Head(hs)) \o ConcatHours(s, d, Tail(hs))

Published(s, d) == ConcatHours(s, d, PublishedHours(s, d))

(***************************************************************************)
(* Spatial matchers.                                                       *)
(***************************************************************************)
DistUnits(lat, lon, coordinates) ==
    Abs(lat - coordinates.lat) + Abs(lon - coordinates.lon)

WithinKm(lat, lon, coordinates, max_distance) ==
    DistUnits(lat, lon, coordinates) <= max_distance * UnitsPerKm

\* hrrr.py find_nearby_predictions: np.radians(None) raises TypeError;
\* haversine_distances refuses an array with no samples (ValueError)
find_nearby_predictions(predictions, coordinates, max_distance) ==
    IF ~coordinates.found THEN Err("TypeError")
    ELSE IF predictions = <<>> THEN Err("ValueError")
    ELSE Ok(SelectSeq(predictions,
                LAMBDA r : WithinKm(r.Latitude, r.Longitude, coordinates, max_distance)))

\* drop_duplicates(subset="AQSID", keep="first")
DropDuplicateStations(aqs_readings) ==
    LET firsts == {i \in DOMAIN aqs_readings :
                     \A j \in 1 .. i - 1 : aqs_readings[j].AQSID # aqs_readings[i].AQSID}
        F[i \in 0 .. Len(aqs_readings)] ==
            IF i = 0 THEN <<>>
            ELSE IF i \in firsts THEN Append(F[i - 1], aqs_readings[i]) ELSE F[i - 1]
    IN  F[Len(aqs_readings)]

\* kneighbors: the positions (in aqs) of the n_neighbors nearest stations;
\* position i is ranked by its distance, equal distances by position
NearestPositions(aqs, coordinates, n_neighbors) ==
    LET dist(i) == DistUnits(aqs[i].Latitude, aqs[i].Longitude, coordinates)
        rank(i) == Cardinality({j \in DOMAIN aqs :
                        dist(j) < dist(i) \/ (dist(j) = dist(i) /\ j < i)})
    IN  {i \in DOMAIN aqs : rank(i) < n_neighbors}

\* airnow.py find_nearby_monitors: NearestNeighbors.fit refuses an empty
\* array and n_neighbors <= 0, kneighbors refuses n_neighbors > n_samples
find_nearby_monitors(aqs_readings, coordinates, max_distance, max_neighbors) ==
    LET aqs == DropDuplicateStations(aqs_readings)
        good_inds == {i \in NearestPositions(aqs, coordinates, max_neighbors) :
                        WithinKm(aqs[i].Latitude, aqs[i].Longitude, coordinates, max_distance)}
        good_ids == {aqs[i].AQSID : i \in good_inds}
    IN  IF ~coordinates.found THEN Err("TypeError")
        ELSE IF aqs = <<>> \/ max_neighbors <= 0 \/ max_neighbors > Len(aqs)
        THEN Err("ValueError")
        ELSE Ok(SelectSeq(aqs_readings, LAMBDA r : r.AQSID \in good_ids))

(***************************************************************************)
(* The HRRR grid index codec.  The index file is absent or holds one       *)
(* "%.6f,%.6f" line per entry.                                             *)
(***************************************************************************)
\* a coordinate formatted with "%.6f" and parsed again
Round6(x) == ((x + 5) \div 10) * 10

NoIndex == [exists |-> FALSE, lines |-> <<>>]

\* build_latlon_idx: one line per distinct (lat, lon) pair of the
\* prediction as given (distinct before formatting), each written with
\* fmt="%.6f"; the lines are in the iteration order of the set, taken here
\* to be the order of first occurrence
build_latlon_idx(prediction) ==
    LET pair(i) == <<prediction[i].Latitude, prediction[i].Longitude>>
        firsts == {i \in DOMAIN prediction : \A j \in 1 .. i - 1 : pair(j) # pair(i)}
        F[i \in 0 .. Len(prediction)] ==
            IF i = 0 THEN <<>>
            ELSE IF i \in firsts
                 THEN Append(F[i - 1], <<Round6(pair(i)[1]), Round6(pair(i)[2])>>)
                 ELSE F[i - 1]
    IN  [exists |-> TRUE, lines |-> F[Len(prediction)]]

\* np.loadtxt gives a one-dimensional array for a file of one line, and
\* indexing its entries as pairs raises IndexError
LoadtxtIsTable(index) == Len(index.lines) # 1

\* idx_lookup = {(lat, lon): i for i, latlon in enumerate(latlon_idx)}:
\* a later line with the same pair replaces an earlier one
IdxLookup(index, lat, lon) ==
    LET hits == {i \in DOMAIN index.lines : index.lines[i] = <<Round6(lat), Round6(lon)>>}
    IN  IF hits = {} THEN -1
        ELSE (CHOOSE i \in hits : \A j \in hits : j <= i) - 1

\* a conversion that builds the index from every prediction it is given
latlon_to_idx_convert_Rebuilds(index, prediction) ==
    LET conv(idx, r) == [LatLonIdx |-> IdxLookup(idx, r.Latitude, r.Longitude),
                         ValidTime |-> r.ValidTime, PM25 |-> r.PM25]
        check(idx, out) ==
            IF ~LoadtxtIsTable(idx) THEN [index |-> idx, out |-> Err("IndexError")]
            ELSE IF \E i \in DOMAIN out : out[i].LatLonIdx = -1
            THEN [index |-> idx, out |-> Err("KeyError")]
            ELSE [index |-> idx, out |-> Ok(out)]
        encode(idx) == check(idx, [i \in DOMAIN prediction |-> conv(idx, prediction[i])])
    IN  encode(build_latlon_idx(prediction))
\* latlon_to_idx_convert: [index |-> the index file afterwards, out |-> the
\* prediction with LatLonIdx in place of Latitude and Longitude, or the error]
latlon_to_idx_convert(index, prediction) ==
    LET conv(idx, r) == [LatLonIdx |-> IdxLookup(idx, r.Latitude, r.Longitude),
                         ValidTime |-> r.ValidTime, PM25 |-> r.PM25]
        check(idx, out) ==
            IF ~LoadtxtIsTable(idx) THEN [index |-> idx, out |-> Err("IndexError")]
            ELSE IF \E i \in DOMAIN out : out[i].LatLonIdx = -1
            THEN [index |-> idx, out |-> Err("KeyError")]
            ELSE [index |-> idx, out |-> Ok(out)]
        encode(idx) == check(idx, [i \in DOMAIN prediction |-> conv(idx, prediction[i])])
    IN  encode(IF index.exists THEN index ELSE build_latlon_idx(prediction))

\* a conversion that takes a missing index file for an empty mapping
idx_to_latlon_convert_Fabricates(index, prediction) ==
    LET conv(r) == [ValidTime |-> r.ValidTime, PM25 |-> r.PM25,
                    Latitude |-> index.lines[r.LatLonIdx + 1][1],
                    Longitude |-> index.lines[r.LatLonIdx + 1][2]]
    IN  IF ~index.exists THEN Ok(<<>>)
        ELSE IF ~LoadtxtIsTable(index) \/ index.lines = <<>> THEN Err("IndexError")
        ELSE IF \E i \in DOMAIN prediction :
                    prediction[i].LatLonIdx + 1 \notin DOMAIN index.lines
        THEN Err("IndexError")
        ELSE Ok([i \in DOMAIN prediction |-> conv(prediction[i])])
\* idx_to_latlon_convert: latlons[:, 0] raises IndexError when the loaded
\* index is one-dimensional (a file of one line, or of no line)
idx_to_latlon_convert(index, prediction) ==
    LET conv(r) == [ValidTime |-> r.ValidTime, PM25 |-> r.PM25,
                    Latitude |-> index.lines[r.LatLonIdx + 1][1],
                    Longitude |-> index.lines[r.LatLonIdx + 1][2]]
    IN  IF ~index.exists THEN Err("FileNotFoundError")
        ELSE IF ~LoadtxtIsTable(index) \/ index.lines = <<>> THEN Err("IndexError")
        ELSE IF \E i \in DOMAIN prediction :
                    prediction[i].LatLonIdx + 1 \notin DOMAIN index.lines
        THEN Err("IndexError")
        ELSE Ok([i \in DOMAIN prediction |-> conv(prediction[i])])

(***************************************************************************)
(* The world an operation runs in: the files, and a trace of what the      *)
(* operation called and wrote.  Operations are functions from a world (and *)
(* a Forecast object) to a world (and the object, and what is returned or  *)
(* raised).                                                                *)
(***************************************************************************)
NoTrace ==
    [adapter |-> {}, failed |-> {}, resolver |-> {}, matcher |-> {},
     wroteRaw |-> {}, wroteLoc |-> {}, wroteIdx |-> FALSE,
     evaluated |-> {}, raised |-> {}, wroteRes |-> {}, skipped |-> {}]

World(raw, loc, idx, res) ==
    [raw |-> raw, loc |-> loc, idx |-> idx, res |-> res, tr |-> NoTrace]

\* the adapter of key is called, and the provider answers with ad
CallAdapter(w, key, ad) ==
    [w EXCEPT !.tr.adapter = @ \cup {key},
              !.tr.failed = IF ad.ok THEN @ ELSE @ \cup {key}]
CallResolver(w, name) == [w EXCEPT !.tr.resolver = @ \cup {name}]
CallMatcher(w, key) == [w EXCEPT !.tr.matcher = @ \cup {key}]

\* DataFrame.to_csv(path): the file is created or replaced
to_csv_raw(w, key, rows) ==
    [w EXCEPT !.raw[key] = File(rows), !.tr.wroteRaw = @ \cup {key}]
to_csv_loc(w, key, rows) ==
    [w EXCEPT !.loc[key] = File(rows), !.tr.wroteLoc = @ \cup {key}]
\* np.savetxt(latlon_idx_path, ...) happens when the codec found no index
SetIndex(w, index) ==
    IF w.idx.exists THEN w ELSE [w EXCEPT !.idx = index, !.tr.wroteIdx = TRUE]

\* pd.read_csv(path)
read_csv(file) == IF file.exists THEN Ok(file.rows) ELSE Err("FileNotFoundError")

(***************************************************************************)
(* Source adapters.  ad is what the provider does on this call: [ok,       *)
(* cover].  A result is [w, raised, none, rows]: the adapter raised,       *)
(* returned None, or returned rows.                                        *)
(***************************************************************************)
Returned(w, rows) == [w |-> w, raised |-> "", none |-> FALSE, rows |-> rows]
ReturnedNone(w) == [w |-> w, raised |-> "", none |-> TRUE, rows |-> <<>>]
Raised(w, name) == [w |-> w, raised |-> name, none |-> FALSE, rows |-> <<>>]

\* a day with a failed hour is returned with the hours fetched before it
airnow_data_download_PartialDay(w, date, ad) ==
    IF ad.ok THEN Returned(w, Published("airnow", date))
    ELSE Returned(w, HourRows("airnow", date, persistence_hour))

\* airnow.py: download_hour catches HTTPError, download_day stops at the
\* first hour that failed and parse_day then returns None
airnow_data_download(w, date, ad) ==
    IF ad.ok THEN Returned(w, Published("airnow", date))
    ELSE ReturnedNone(w)

\* the days whose csv file one CAMS request writes: the days of the month
\* of the date that the provider has published
CamsDays(date, ad) ==
    {t \in Dates : MonthOf(t) = MonthOf(date) /\ (ad.cover = "month" \/ t <= date)}

RECURSIVE CamsWrite(_, _, _)
CamsWrite(w, days, ad) ==
    IF days = {} THEN w
    ELSE LET t == CHOOSE x \in days : \A y \in days : x <= y
         IN  CamsWrite(to_csv_raw(w, <<"cams", t>>, Published("cams", t)),
                       days \ {t}, ad)

\* cams.py: requests the whole month, writes one csv per day of it next to
\* cams_path, and returns nothing
cams_data_download(w, date, ad) ==
    IF ad.ok THEN ReturnedNone(CamsWrite(w, CamsDays(date, ad), ad))
    ELSE Raised(w, "SourceError")

download_geoscf_data(w, date, ad) ==
    IF ad.ok THEN Returned(w, Published("geoscf", date))
    ELSE Raised(w, "SourceError")

naqfc_data_download(w, date, ad) ==
    IF ad.ok THEN Returned(w, Published("naqfc", date))
    ELSE Raised(w, "SourceError")

hrrr_data_download(w, date, ad) ==
    IF ad.ok THEN Returned(w, Published("hrrr", date))
    ELSE Raised(w, "SourceError")

(***************************************************************************)
(* Forecast objects.                                                       *)
(***************************************************************************)
NewForecast(name, location, date, max_distance, max_neighbors) ==
    [name |-> name, location |-> location, date |-> date,
     data |-> None, location_data |-> None,
     max_distance |-> max_distance, max_neighbors |-> max_neighbors]

DefaultMaxDistance(name) ==
    CASE name = "airnow" -> AirNowMaxDistance
      [] name = "cams" -> CAMSMaxDistance
      [] name = "geoscf" -> GEOSCFMaxDistance
      [] name = "naqfc" -> NAQFCMaxDistance
      [] OTHER -> HRRRMaxDistance

\* DailyData.build_forecast: the class of the name, with its defaults
build_forecast(name, location, date) ==
    NewForecast(name, location, date, DefaultMaxDistance(name), AirNowMaxNeighbors)

\* a raw file that counts only for the objects of one location
is_downloaded_ForBoston(w, e) == w.raw[RawKey(e)].exists /\ e.location = "Boston"
is_downloaded(w, e) == w.raw[RawKey(e)].exists
\* a location file that counts only for the default matching parameters
location_built_ForDefaults(w, e) ==
    /\ w.loc[LocKey(e)].exists
    /\ e.max_distance = DefaultMaxDistance(e.name)
    /\ e.max_neighbors = AirNowMaxNeighbors
location_built(w, e) == w.loc[LocKey(e)].exists

download_fn(w, e, ad) ==
    LET w1 == CallAdapter(w, RawKey(e), ad)
    IN  CASE e.name = "airnow" -> airnow_data_download(w1, e.date, ad)
          [] e.name = "cams" -> cams_data_download(w1, e.date, ad)
          [] e.name = "geoscf" -> download_geoscf_data(w1, e.date, ad)
          [] OTHER -> naqfc_data_download(w1, e.date, ad)

\* GenericForecast.download: [w, err]
GenericForecast_download(w, e, ad) ==
    LET write(r) ==
            IF r.raised # "" THEN [w |-> r.w, err |-> r.raised]
            ELSE IF r.none THEN [w |-> r.w, err |-> "AttributeError"]
            ELSE [w |-> to_csv_raw(r.w, RawKey(e), r.rows), err |-> ""]
    IN  IF is_downloaded(w, e) THEN [w |-> w, err |-> ""]
        ELSE write(download_fn(w, e, ad))

\* HRRRForecast.download: [w, err]
HRRRForecast_download(w, e, ad) ==
    LET write(w2, c) ==
            IF ~c.out.ok THEN [w |-> w2, err |-> c.out.err]
            ELSE [w |-> to_csv_raw(w2, RawKey(e), c.out.rows), err |-> ""]
        convert(w1, c) == write(SetIndex(w1, c.index), c)
        encode(r) ==
            IF r.raised # "" THEN [w |-> r.w, err |-> r.raised]
            ELSE convert(r.w, latlon_to_idx_convert(r.w.idx, r.rows))
    IN  IF is_downloaded(w, e) THEN [w |-> w, err |-> ""]
        ELSE encode(hrrr_data_download(CallAdapter(w, RawKey(e), ad), e.date, ad))

\* Forecast.data: [w, e, out]
Forecast_data(w, e, ad) ==
    LET load(dl, rd) ==
            IF ~rd.ok THEN [w |-> dl.w, e |-> e, out |-> rd]
            ELSE [w |-> dl.w, e |-> [e EXCEPT !.data = Some(rd.rows)], out |-> rd]
        read(dl) ==
            IF dl.err # "" THEN [w |-> dl.w, e |-> e, out |-> Err(dl.err)]
            ELSE load(dl, read_csv(dl.w.raw[RawKey(e)]))
    IN  IF e.data.set THEN [w |-> w, e |-> e, out |-> Ok(e.data.rows)]
        ELSE read(GenericForecast_download(w, e, ad))

\* HRRRForecast.data: [w, e, out]
HRRRForecast_data(w, e, ad) ==
    LET set(dl, dec) ==
            IF ~dec.ok THEN [w |-> dl.w, e |-> e, out |-> dec]
            ELSE [w |-> dl.w, e |-> [e EXCEPT !.data = Some(dec.rows)], out |-> dec]
        load(dl, rd) ==
            IF ~rd.ok THEN [w |-> dl.w, e |-> e, out |-> rd]
            ELSE set(dl, idx_to_latlon_convert(dl.w.idx, rd.rows))
        read(dl) ==
            IF dl.err # "" THEN [w |-> dl.w, e |-> e, out |-> Err(dl.err)]
            ELSE load(dl, read_csv(dl.w.raw[RawKey(e)]))
    IN  IF e.data.set THEN [w |-> w, e |-> e, out |-> Ok(e.data.rows)]
        ELSE read(HRRRForecast_download(w, e, ad))

\* the data property of the object's class
data(w, e, ad) ==
    IF e.name = "hrrr" THEN HRRRForecast_data(w, e, ad) ELSE Forecast_data(w, e, ad)

\* find_neighbor_fn of the Generic classes, and the matcher call of
\* HRRRForecast.build_location_data: the arguments are evaluated in order,
\* self.data first, then get_lat_lon, then the matcher runs
find_neighbor_fn(w, e, ad) ==
    LET neighbors(rows, coordinates) ==
            CASE e.name = "airnow" ->
                    find_nearby_monitors(rows, coordinates, e.max_distance, e.max_neighbors)
              [] e.name = "hrrr" ->
                    find_nearby_predictions(rows, coordinates, HRRRMaxDistance)
              [] OTHER ->
                    find_nearby_predictions(rows, coordinates, e.max_distance)
        match(r) ==
            IF ~r.out.ok THEN r
            ELSE [w |-> CallMatcher(CallResolver(r.w, e.location), LocKey(e)),
                  e |-> r.e,
                  out |-> neighbors(r.out.rows, get_lat_lon(e.location))]
    IN  match(data(w, e, ad))

\* build_location_data without the location_built() test
GenericForecast_build_location_data_Rebuilds(w, e, ad) ==
    LET write(n) ==
            IF ~n.out.ok THEN [w |-> n.w, e |-> n.e, err |-> n.out.err]
            ELSE [w |-> to_csv_loc(n.w, LocKey(e), n.out.rows), e |-> n.e, err |-> ""]
    IN  write(find_neighbor_fn(w, e, ad))

\* GenericForecast.build_location_data: [w, e, err]
GenericForecast_build_location_data(w, e, ad) ==
    LET write(n) ==
            IF ~n.out.ok THEN [w |-> n.w, e |-> n.e, err |-> n.out.err]
            ELSE [w |-> to_csv_loc(n.w, LocKey(e), n.out.rows), e |-> n.e, err |-> ""]
    IN  IF location_built(w, e) THEN [w |-> w, e |-> e, err |-> ""]
        ELSE write(find_neighbor_fn(w, e, ad))

\* HRRRForecast.build_location_data: [w, e, err]
HRRRForecast_build_location_data(w, e, ad) ==
    LET write(n, w2, c) ==
            IF ~c.out.ok THEN [w |-> w2, e |-> n.e, err |-> c.out.err]
            ELSE [w |-> to_csv_loc(w2, LocKey(e), c.out.rows), e |-> n.e, err |-> ""]
        convert(n, c) == write(n, SetIndex(n.w, c.index), c)
        encode(n) ==
            IF ~n.out.ok THEN [w |-> n.w, e |-> n.e, err |-> n.out.err]
            ELSE convert(n, latlon_to_idx_convert(n.w.idx, n.out.rows))
    IN  IF location_built(w, e) THEN [w |-> w, e |-> e, err |-> ""]
        ELSE encode(find_neighbor_fn(w, e, ad))

\* Forecast.location_data: [w, e, out]
Forecast_location_data(w, e, ad) ==
    LET load(b, rd) ==
            IF ~rd.ok THEN [w |-> b.w, e |-> b.e, out |-> rd]
            ELSE [w |-> b.w, e |-> [b.e EXCEPT !.location_data = Some(rd.rows)],
                  out |-> rd]
        read(b) ==
            IF b.err # "" THEN [w |-> b.w, e |-> b.e, out |-> Err(b.err)]
            ELSE load(b, read_csv(b.w.loc[LocKey(e)]))
    IN  IF e.location_data.set THEN [w |-> w, e |-> e, out |-> Ok(e.location_data.rows)]
        ELSE read(GenericForecast_build_location_data(w, e, ad))

\* HRRRForecast.location_data: [w, e, out]
HRRRForecast_location_data(w, e, ad) ==
    LET set(b, dec) ==
            IF ~dec.ok THEN [w |-> b.w, e |-> b.e, out |-> dec]
            ELSE [w |-> b.w, e |-> [b.e EXCEPT !.location_data = Some(dec.rows)],
                  out |-> dec]
        load(b, rd) ==
            IF ~rd.ok THEN [w |-> b.w, e |-> b.e, out |-> rd]
            ELSE set(b, idx_to_latlon_convert(b.w.idx, rd.rows))
        read(b) ==
            IF b.err # "" THEN [w |-> b.w, e |-> b.e, out |-> Err(b.err)]
            ELSE load(b, read_csv(b.w.loc[LocKey(e)]))
    IN  IF e.location_data.set THEN [w |-> w, e |-> e, out |-> Ok(e.location_data.rows)]
        ELSE read(HRRRForecast_build_location_data(w, e, ad))

\* the location_data property of the object's class
location_data(w, e, ad) ==
    IF e.name = "hrrr" THEN HRRRForecast_location_data(w, e, ad)
    ELSE Forecast_location_data(w, e, ad)

(***************************************************************************)
(* Numbers of the metrics: a float is not-a-number or the rational n/d     *)
(* (d > 0, in lowest terms), or, with root set, its square root.           *)
(***************************************************************************)
RECURSIVE Gcd(_, _)
Gcd(a, b) == IF b = 0 THEN a ELSE Gcd(b, a % b)

NaN == [nan |-> TRUE, n |-> 0, d |-> 1, root |-> FALSE]
Rat(n, d) ==
    LET g == Gcd(Abs(n), d)
    IN  [nan |-> FALSE, n |-> n \div g, d |-> d \div g, root |-> FALSE]
Int2Num(i) == Rat(i, 1)

NumAdd(x, y) == IF x.nan \/ y.nan THEN NaN ELSE Rat(x.n * y.d + y.n * x.d, x.d * y.d)
NumSub(x, y) == IF x.nan \/ y.nan THEN NaN ELSE Rat(x.n * y.d - y.n * x.d, x.d * y.d)
NumSquare(x) == IF x.nan THEN NaN ELSE Rat(x.n * x.n, x.d * x.d)
NumLess(x, y) == x.n * y.d < y.n * x.d

RECURSIVE NumSum(_)
NumSum(xs) == IF xs = <<>> THEN Int2Num(0) ELSE NumAdd(Head(xs), NumSum(Tail(xs)))

\* np.mean of a list of floats: not-a-number for an empty list
np_mean(xs) ==
    LET mean(t) == IF xs = <<>> \/ t.nan THEN NaN ELSE Rat(t.n, t.d * Len(xs))
    IN  mean(NumSum(xs))

\* np.sqrt
np_sqrt(x) == IF x.nan \/ x.n = 0 THEN x ELSE [x EXCEPT !.root = TRUE]

\* np.min, np.max: not-a-number when any entry is
np_min(xs) ==
    IF \E i \in DOMAIN xs : xs[i].nan THEN NaN
    ELSE xs[CHOOSE i \in DOMAIN xs : \A j \in DOMAIN xs : ~NumLess(xs[j], xs[i])]
np_max(xs) ==
    IF \E i \in DOMAIN xs : xs[i].nan THEN NaN
    ELSE xs[CHOOSE i \in DOMAIN xs : \A j \in DOMAIN xs : ~NumLess(xs[i], xs[j])]

\* an argmin that returns the last smallest entry
np_argmin_Last(xs) ==
    LET nans == {i \in DOMAIN xs : xs[i].nan}
        mins == {i \in DOMAIN xs : \A j \in DOMAIN xs : ~NumLess(xs[j], xs[i])}
        last_of(S) == CHOOSE i \in S : \A j \in S : j <= i
    IN  IF nans # {} THEN last_of(nans) ELSE last_of(mins)
\* np.argmin: the first not-a-number entry if there is one, else the first
\* smallest entry (a position of the sequence, counted from 1)
np_argmin(xs) ==
    LET nans == {i \in DOMAIN xs : xs[i].nan}
        mins == {i \in DOMAIN xs : \A j \in DOMAIN xs : ~NumLess(xs[j], xs[i])}
        first(S) == CHOOSE i \in S : \A j \in S : i <= j
    IN  IF nans # {} THEN first(nans) ELSE first(mins)

\* a comparison that is not strict
NumGreater_OrEqual(x, threshold) == ~x.nan /\ x.n >= threshold * x.d
\* x > threshold: False for not-a-number
NumGreater(x, threshold) == ~x.nan /\ x.n > threshold * x.d

\* np.mean(df.loc[df.ValidTime == h].PM25)
HourMean(rows, h) ==
    LET sel == SelectSeq(rows, LAMBDA r : r.ValidTime = h)
    IN  np_mean([i \in DOMAIN sel |-> Int2Num(sel[i].PM25)])

WindowMeans(rows) == [i \in DOMAIN hours_to_include |-> HourMean(rows, hours_to_include[i])]

(***************************************************************************)
(* DailyData and the metrics.  A metric call is a function from a world    *)
(* to [w, err, val]: val maps names to scores.                             *)
(***************************************************************************)
NoForecasts == [none |-> TRUE, names |-> <<>>]
ForecastList(names) == [none |-> FALSE, names |-> names]
DefaultForecasts == ForecastList(<<"airnow", "geoscf", "hrrr", "cams">>)

DailyData(date, location_name, forecasts) ==
    [date |-> date, location_name |-> location_name, forecasts |-> forecasts]

EmptyMap == [k \in {} |-> NaN]

\* DailyData.forecasts: a new dict of new Forecast objects at every read.
\* Iterating None raises TypeError, build_forecast raises ValueError for a
\* name it does not know.  [err, names]
DailyData_forecasts(day) ==
    IF day.forecasts.none THEN [err |-> "TypeError", names |-> <<>>]
    ELSE IF \E i \in DOMAIN day.forecasts.names : day.forecasts.names[i] \notin Sources
    THEN [err |-> "ValueError", names |-> <<>>]
    ELSE [err |-> "", names |-> day.forecasts.names]

\* pop on the list the DailyData holds instead of on the dict of this read
forecasts_pop_FromList(day, name) ==
    [day EXCEPT !.forecasts.names = SelectSeq(@, LAMBDA n : n # name)]

\* the DailyData after day_data.forecasts.pop(name): the entry leaves the
\* dict that this read of the property built, _forecasts is not touched
forecasts_pop(day, name) == day

\* the location data of the entries of day_data.forecasts, in order:
\* [w, err, rows], rows mapping each name read so far to its location data
RECURSIVE ReadForecasts(_, _, _, _, _)
ReadForecasts(w, day, names, ads, acc) ==
    LET next(name, r) ==
            IF ~r.out.ok THEN [w |-> r.w, err |-> r.out.err, rows |-> acc]
            ELSE ReadForecasts(r.w, day, Tail(names), ads,
                    [k \in DOMAIN acc \cup {name} |->
                        IF k = name THEN r.out.rows ELSE acc[k]])
        read(name) ==
            next(name, location_data(w, build_forecast(name, day.location_name, day.date),
                                     ads[<<name, day.date>>]))
    IN  IF names = <<>> THEN [w |-> w, err |-> "", rows |-> acc]
        ELSE read(Head(names))

\* the part the three metrics share (metrics.py lines 24-33, 54-63, 89-98):
\* pop "airnow" from one read of day_data.forecasts, then iterate another
\* read of day_data.forecasts.  [w, err, monitor_readings, rows]
MetricInputs(w, day, ads) ==
    LET fail(w1, err) == [w |-> w1, err |-> err, monitor_readings |-> <<>>,
                          rows |-> EmptyMap]
        collect(a, rest) ==
            IF rest.err # "" THEN fail(rest.w, rest.err)
            ELSE [w |-> rest.w, err |-> "", monitor_readings |-> a.out.rows,
                  rows |-> rest.rows]
        predictions(fs, a) ==
            IF ~a.out.ok THEN fail(a.w, a.out.err)
            ELSE collect(a, ReadForecasts(a.w, day, fs.names, ads, EmptyMap))
        pop(fs) ==
            IF fs.err # "" THEN fail(w, fs.err)
            ELSE IF "airnow" \notin Range(fs.names) THEN fail(w, "KeyError")
            ELSE predictions(fs, location_data(w,
                        build_forecast("airnow", day.location_name, day.date),
                        ads[<<"airnow", day.date>>]))
    IN  pop(DailyData_forecasts(day))

WithEntry(m, key, value) ==
    [k \in DOMAIN m \cup {key} |-> IF k = key THEN value ELSE m[k]]

\* np.sqrt(np.mean([(o - p) ** 2 for o, p in zip(observed, predicted)]))
RootMeanSquare(observed, predicted) ==
    np_sqrt(np_mean([i \in DOMAIN observed |->
                        NumSquare(NumSub(observed[i], predicted[i]))]))

\* RMSE.__call__ after the inputs are read
RMSE_scores(monitor_readings, rows) ==
    LET scores(observed, persistence) ==
            WithEntry([k \in DOMAIN rows |-> RootMeanSquare(observed, WindowMeans(rows[k]))],
                      "persistence",
                      RootMeanSquare(observed, [i \in DOMAIN observed |-> persistence]))
    IN  scores(WindowMeans(monitor_readings), HourMean(monitor_readings, persistence_hour))

\* MeanExcessExposure.__call__ after the inputs are read
MEE_scores(monitor_readings, rows) ==
    LET scores(observed) ==
            WithEntry([k \in DOMAIN rows |->
                         NumSub(observed[np_argmin(WindowMeans(rows[k]))], np_min(observed))],
                      "persistence", NumSub(np_mean(observed), np_min(observed)))
    IN  scores(WindowMeans(monitor_readings))

threshold == 35

\* IsSmokeDay.__call__ after the inputs are read
IsSmokeDay_scores(monitor_readings, rows) ==
    LET scores(observed, persistence) ==
            WithEntry(
                WithEntry([k \in DOMAIN rows |->
                              NumGreater(np_max(WindowMeans(rows[k])), threshold)],
                          "persistence", NumGreater(persistence, threshold)),
                "observed", NumGreater(np_max(observed), threshold))
    IN  scores(WindowMeans(monitor_readings), HourMean(monitor_readings, persistence_hour))

Metrics == {"rmse", "mee", "smokeday"}

\* metric(day_data): [w, err, val]
Metric_call(metric, w, day, ads) ==
    LET scores(in) ==
            CASE metric = "rmse" -> RMSE_scores(in.monitor_readings, in.rows)
              [] metric = "mee" -> MEE_scores(in.monitor_readings, in.rows)
              [] OTHER -> IsSmokeDay_scores(in.monitor_readings, in.rows)
        result(in) ==
            IF in.err # "" THEN [w |-> in.w, err |-> in.err, val |-> EmptyMap]
            ELSE [w |-> in.w, err |-> "", val |-> scores(in)]
    IN  result(MetricInputs(w, day, ads))

(***************************************************************************)
(* Experiment.                                                             *)
(***************************************************************************)
NoResult == [exists |-> FALSE, val |-> [m \in {} |-> EmptyMap]]
NoResults == [d \in {} |-> [m \in {} |-> EmptyMap]]

\* Experiment.load_data: one DailyData per i in range(delta.days + 1)
load_data(location, start_date, end_date, forecasts) ==
    [i \in 1 .. (end_date - start_date + 1) |->
        DailyData(start_date + i - 1, location, forecasts)]

\* {metric.name: metric(day) for metric in self.metrics}: [w, err, val]
RECURSIVE EvaluateDay(_, _, _, _, _)
EvaluateDay(w, day, metrics, ads, acc) ==
    LET next(r) ==
            IF r.err # "" THEN [w |-> r.w, err |-> r.err, val |-> acc]
            ELSE EvaluateDay(r.w, day, Tail(metrics), ads,
                             WithEntry(acc, Head(metrics), r.val))
    IN  IF metrics = <<>> THEN [w |-> w, err |-> "", val |-> acc]
        ELSE next(Metric_call(Head(metrics), w, day, ads))

\* Experiment.evaluate_metrics: [w, err, results]; an exception of any
\* metric call ends the whole comprehension
RECURSIVE evaluate_metrics(_, _, _, _, _)
evaluate_metrics(w, days, metrics, ads, acc) ==
    LET next(day, r) ==
            IF r.err # ""
            THEN [w |-> [r.w EXCEPT !.tr.raised = @ \cup {day.date}],
                  err |-> r.err, results |-> NoResults]
            ELSE evaluate_metrics([r.w EXCEPT !.tr.evaluated = @ \cup {day.date}],
                                  Tail(days), metrics, ads,
                                  WithEntry(acc, day.date, r.val))
        eval(day) ==
            next(day, EvaluateDay(w, day, metrics, ads, [m \in {} |-> EmptyMap]))
    IN  IF days = <<>> THEN [w |-> w, err |-> "", results |-> acc]
        ELSE eval(Head(days))

\* json_tricks.dump refuses a not-a-number float (allow_nan is False) with
\* ValueError, before it opens the file
DumpRaisesValueError(day_results) ==
    \E m \in DOMAIN day_results \cap {"rmse", "mee"} :
        \E k \in DOMAIN day_results[m] : day_results[m][k].nan

\* one turn of the loop of Experiment.save_results
SaveDay(w, location, date, day_results) ==
    IF DumpRaisesValueError(day_results)
    THEN [w EXCEPT !.tr.skipped = @ \cup {date}]
    ELSE [w EXCEPT !.res[<<location, date>>] = [exists |-> TRUE, val |-> day_results],
                   !.tr.wroteRes = @ \cup {date}]

\* save_results with the try around the loop: the first ValueError ends it
RECURSIVE save_results_StopsAtError(_, _, _, _)
save_results_StopsAtError(w, location, results, dates) ==
    IF dates = <<>> THEN w
    ELSE IF DumpRaisesValueError(results[Head(dates)])
    THEN SaveDay(w, location, Head(dates), results[Head(dates)])
    ELSE save_results_StopsAtError(
            SaveDay(w, location, Head(dates), results[Head(dates)]),
            location, results, Tail(dates))

\* Experiment.save_results: the dates of results in their order
RECURSIVE save_results(_, _, _, _)
save_results(w, location, results, dates) ==
    IF dates = <<>> THEN w
    ELSE save_results(SaveDay(w, location, Head(dates), results[Head(dates)]),
                      location, results, Tail(dates))

\* Experiment.run: [w, err, results]
run(w, e, ads) ==
    LET dates == [i \in DOMAIN e.daily_data |-> e.daily_data[i].date]
        save(r) ==
            IF r.err # "" THEN r
            ELSE [w |-> save_results(r.w, e.location, r.results, dates),
                  err |-> "", results |-> r.results]
    IN  save(evaluate_metrics(w, e.daily_data, e.metrics, ads, NoResults))

(***************************************************************************)
(* The state machine.  rawFile, locFile, idxFile and resFile are the       *)
(* files under the data and results directories; ent are the Forecast      *)
(* objects a caller holds; exp is the Experiment; last records the last    *)
(* operation: the object it was called on, which files existed before it,  *)
(* what it called and wrote, and what it returned or raised.               *)
(***************************************************************************)
EntIds == 1 .. NumEntities

AdapterOutcomes(name) ==
    {[ok |-> FALSE, cover |-> "month"]} \cup
    {[ok |-> TRUE, cover |-> c] :
        c \in IF name = "cams" THEN {"month", "sofar"} ELSE {"month"}}

NoAnswer == [ok |-> FALSE, cover |-> "month"]

NoObject == NewForecast("", "", 0, 0, 0)

Snapshot ==
    [raw |-> {k \in RawKeys : rawFile[k].exists},
     loc |-> {k \in LocKeys : locFile[k].exists},
     idx |-> idxFile.exists,
     res |-> {k \in Locations \X Dates : resFile[k].exists}]

Now == World(rawFile, locFile, idxFile, resFile)

NoExperiment ==
    [built |-> FALSE, location |-> "", start_date |-> 0, end_date |-> 0,
     metrics |-> <<>>, forecasts |-> NoForecasts, daily_data |-> <<>>]

Record(op, id, obj, tr, out, err, val, results) ==
    [op |-> op, id |-> id, obj |-> obj, pre |-> Snapshot, tr |-> tr, out |-> out,
     err |-> err, val |-> val, results |-> results]

\* an empty data directory, no object made
InitFiles ==
    /\ rawFile = [k \in RawKeys |-> Absent]
    /\ locFile = [k \in LocKeys |-> Absent]
    /\ idxFile = NoIndex
    /\ resFile = [k \in Locations \X Dates |-> NoResult]
    /\ ent = [i \in EntIds |-> [made |-> FALSE, obj |-> NoObject]]
    /\ exp = NoExperiment
    /\ last = [op |-> "start", id |-> 0, obj |-> NoObject,
               pre |-> [raw |-> {}, loc |-> {}, idx |-> FALSE, res |-> {}],
               tr |-> NoTrace, out |-> Ok(<<>>), err |-> "", val |-> EmptyMap,
               results |-> NoResults]

Init ==
    /\ InitFiles
    /\ hours_to_include = PublishedWindow
    /\ arg = <<>>
    /\ ret = <<>>

SetFiles(w) ==
    /\ rawFile' = w.raw
    /\ locFile' = w.loc
    /\ idxFile' = w.idx
    /\ resFile' = w.res

\* a caller builds a Forecast object of one of the five classes
Construct(i, name, location, date) ==
    /\ ~ent[i].made
    /\ \A j \in 1 .. i - 1 : ent[j].made
    /\ ent' = [ent EXCEPT ![i] = [made |-> TRUE,
                                  obj |-> build_forecast(name, location, date)]]
    /\ last' = Record("new", i, ent'[i].obj, NoTrace, Ok(<<>>), "", EmptyMap, NoResults)
    /\ UNCHANGED <<rawFile, locFile, idxFile, resFile, exp, call>>

\* a caller reads forecast.data
AccessData(i, ad) ==
    /\ ent[i].made
    /\ LET step(r) ==
            /\ SetFiles(r.w)
            /\ ent' = [ent EXCEPT ![i].obj = r.e]
            /\ last' = Record("data", i, ent[i].obj, r.w.tr, r.out, r.out.err,
                              EmptyMap, NoResults)
       IN  step(data(Now, ent[i].obj, ad))
    /\ UNCHANGED <<exp, call>>

\* a caller reads forecast.location_data
AccessLocationData(i, ad) ==
    /\ ent[i].made
    /\ LET step(r) ==
            /\ SetFiles(r.w)
            /\ ent' = [ent EXCEPT ![i].obj = r.e]
            /\ last' = Record("location_data", i, ent[i].obj, r.w.tr, r.out,
                              r.out.err,
                              EmptyMap, NoResults)
       IN  step(location_data(Now, ent[i].obj, ad))
    /\ UNCHANGED <<exp, call>>

\* the data directory is outside the program: a raw day file is removed
\* from it (raw days are whole-domain grids, the location files are kept)
RemoveRawFile(key) ==
    /\ rawFile[key].exists
    /\ rawFile' = [rawFile EXCEPT ![key] = Absent]
    /\ last' = Record("remove", 0, NoObject, NoTrace, Ok(<<>>), "", EmptyMap, NoResults)
    /\ UNCHANGED <<locFile, idxFile, resFile, ent, exp, call>>

Next ==
    \/ \E i \in EntIds, name \in Sources, location \in Locations, date \in Dates :
          Construct(i, name, location, date)
    \/ \E i \in EntIds : \E ad \in AdapterOutcomes(ent[i].obj.name) : AccessData(i, ad)
    \/ \E i \in EntIds : \E ad \in AdapterOutcomes(ent[i].obj.name) :
          AccessLocationData(i, ad)
    \/ \E key \in RawKeys : RemoveRawFile(key)

Spec == Init /\ [][Next]_vars

(***************************************************************************)
(* Properties of the Forecast cache lifecycle, checked under Spec.         *)
(***************************************************************************)
\* what an access loads from a raw file or a location file
Loaded(name, file, index) ==
    IF name = "hrrr" /\ file.exists THEN idx_to_latlon_convert(index, file.rows)
    ELSE read_csv(file)

\* C1: when Forecast.data is read twice in sequence for the same source and
\* date (on the same object or on another object of the same identity) and
\* the raw file exists after the first read, the second read calls no
\* Source Adapter and returns the same Reading Set as the first.
C1_RawDataIdempotent ==
    [][(/\ last.op = "data"
        /\ last'.op = "data"
        /\ RawKey(last'.obj) = RawKey(last.obj)
        /\ rawFile[RawKey(last.obj)].exists)
       => (last'.tr.adapter = {} /\ last'.out = last.out)]_vars

\* C2: a read of Forecast.data that finds the raw file absent and whose
\* Source Adapter call succeeds ends without an error, with the raw file
\* present at the object's raw path, and returns the Reading Set read back
\* from that file.
C2_FirstAccessStoresAndLoads ==
    (/\ last.op = "data"
     /\ RawKey(last.obj) \notin last.pre.raw
     /\ last.tr.adapter # {}
     /\ last.tr.failed = {})
    => (/\ last.err = ""
        /\ rawFile[RawKey(last.obj)].exists
        /\ last.out = Loaded(last.obj.name, rawFile[RawKey(last.obj)], idxFile))

\* C3: a raw file that exists is never written again and never changes
\* while it exists, whatever the source and the date of the object that is
\* read.
C3_RawWriteOnce ==
    [][\A k \in RawKeys :
          rawFile[k].exists =>
             /\ k \notin last'.tr.wroteRaw
             /\ rawFile'[k].exists => rawFile'[k] = rawFile[k]]_vars

\* C4: a read of location_data that finds the location file present loads
\* that file and calls neither the Spatial Matcher, nor the location
\* resolver, nor the Source Adapter, and leaves the raw file and the
\* object's raw data as they were, also when the raw file is absent.
C4_LocationCachedIndependently ==
    [][(last'.op = "location_data" /\ locFile[LocKey(last'.obj)].exists)
       => /\ last'.tr.matcher = {}
          /\ last'.tr.resolver = {}
          /\ last'.tr.adapter = {}
          /\ last'.tr.wroteRaw = {}
          /\ rawFile' = rawFile
          /\ ent'[last'.id].obj.data = ent[last'.id].obj.data
          /\ last'.out = Loaded(last'.obj.name, locFile[LocKey(last'.obj)], idxFile)]_vars

\* C4 witness: an object that holds no location data read location_data
\* while the location file was present and the raw file absent, and got
\* the rows of the location file
C4_Witness ==
    /\ last.op = "location_data"
    /\ LocKey(last.obj) \in last.pre.loc
    /\ RawKey(last.obj) \notin last.pre.raw
    /\ ~last.obj.location_data.set
    /\ ~last.obj.data.set
    /\ last.out.ok
    /\ last.out.rows # <<>>
    /\ ~rawFile[RawKey(last.obj)].exists

\* C5: after a read of Forecast.data whose Source Adapter call failed, the
\* raw file of the object is absent and the object holds no raw data, and
\* a read of Forecast.data on the same object right after it calls the
\* Source Adapter again.
C5_AdapterFailureLeavesNoState ==
    [][(last.op = "data" /\ last.tr.failed # {})
       => /\ ~rawFile[RawKey(last.obj)].exists
          /\ ~ent[last.id].obj.data.set
          /\ (last'.op = "data" /\ last'.id = last.id)
                => RawKey(last.obj) \in last'.tr.adapter]_vars

\* C5 witness: the AirNow adapter failed on an hour of the day, and the
\* same object is read a second time
C5_Witness ==
    /\ last.op = "data"
    /\ last.obj.name = "airnow"
    /\ last.tr.failed = {RawKey(last.obj)}
    /\ last.err # ""
    /\ ~rawFile[RawKey(last.obj)].exists
    /\ ~ent[last.id].obj.data.set


(***************************************************************************)
(* The Experiment as a state machine: an Experiment is built for a         *)
(* location, a date range and a list of sources, and then run; a Metric    *)
(* may also be called on one of its days.                                  *)
(***************************************************************************)
ForecastConfigs ==
    {NoForecasts,
     ForecastList(<<"airnow", "geoscf", "naqfc">>),
     ForecastList(<<"hrrr", "airnow", "cams">>),
     ForecastList(<<"geoscf">>)}

MetricList == <<"rmse", "mee", "smokeday">>

\* the adapter calls an operation on these days can make: the sources of
\* the list whose raw file and location file are both absent
OpenKeys(e, dates) ==
    {k \in RawKeys :
        /\ k[1] \in Range(e.forecasts.names)
        /\ k[2] \in dates
        /\ ~rawFile[k].exists
        /\ ~locFile[<<k[1], e.location, k[2]>>].exists}

\* what the providers answer to each of these calls
RECURSIVE Answers(_)
Answers(keys) ==
    IF keys = {} THEN {[k \in {} |-> NoAnswer]}
    ELSE LET key == CHOOSE k \in keys : TRUE
         IN  {WithEntry(f, key, a) : f \in Answers(keys \ {key}),
                                    a \in AdapterOutcomes(key[1])}

\* Experiment.__init__
ExperimentInit(location, start_date, end_date, forecasts) ==
    /\ ~exp.built
    /\ exp' = [built |-> TRUE, location |-> location, start_date |-> start_date,
               end_date |-> end_date, metrics |-> MetricList, forecasts |-> forecasts,
               daily_data |-> load_data(location, start_date, end_date, forecasts)]
    /\ last' = Record("init", 0, NoObject, NoTrace, Ok(<<>>), "", EmptyMap, NoResults)
    /\ UNCHANGED <<rawFile, locFile, idxFile, resFile, ent, call>>

\* Experiment.run
ExperimentRun(ads) ==
    /\ exp.built
    /\ LET step(r) ==
            /\ SetFiles(r.w)
            /\ last' = Record("run", 0, NoObject, r.w.tr, Ok(<<>>), r.err, EmptyMap,
                              r.results)
       IN  step(run(Now, exp, ads))
    /\ exp' = [exp EXCEPT !.daily_data =
                    [j \in DOMAIN @ |-> forecasts_pop(@[j], "airnow")]]
    /\ UNCHANGED <<ent, call>>

\* metric(day) for a day of the Experiment
MetricCall(i, metric, ads) ==
    /\ exp.built
    /\ i \in DOMAIN exp.daily_data
    /\ LET step(r) ==
            /\ SetFiles(r.w)
            /\ last' = Record(metric, i, NoObject, r.w.tr, Ok(<<>>), r.err, r.val,
                              NoResults)
       IN  step(Metric_call(metric, Now, exp.daily_data[i], ads))
    /\ exp' = [exp EXCEPT !.daily_data[i] = forecasts_pop(@, "airnow")]
    /\ UNCHANGED <<ent, call>>

NextExp ==
    \/ \E location \in Locations, start_date \in Dates, end_date \in Dates,
          forecasts \in ForecastConfigs :
          ExperimentInit(location, start_date, end_date, forecasts)
    \/ \E ads \in Answers(OpenKeys(exp, exp.start_date .. exp.end_date)) :
          ExperimentRun(ads)
    \/ \E i \in 1 .. MaxDate, metric \in Metrics :
          \E ads \in Answers(OpenKeys(exp, IF i \in DOMAIN exp.daily_data
                                            THEN {exp.daily_data[i].date} ELSE {})) :
             MetricCall(i, metric, ads)

SpecExp == Init /\ [][NextExp]_vars

(***************************************************************************)
(* Properties of the metrics and of the Experiment, checked under SpecExp. *)
(***************************************************************************)
ExpDates == exp.start_date .. exp.end_date

\* C6: a Metric called for a day for which a Source Adapter call fails
\* returns without an exception; the Spatial Matcher is not called for the
\* source that failed, and RMSE and MeanExcessExposure report an undefined
\* value for it.
C6_AdapterFailureDoesNotRaise ==
    (last.op \in Metrics /\ last.tr.failed # {})
    => /\ last.err = ""
       /\ \A k \in last.tr.failed : <<k[1], exp.location, k[2]>> \notin last.tr.matcher
       /\ last.op \in {"rmse", "mee"}
            => \A k \in last.tr.failed :
                  k[1] \in DOMAIN last.val => last.val[k[1]].nan

\* C7: in Experiment.run a day whose evaluation raised gets no result file,
\* and every day whose evaluation did not raise reaches save_results: its
\* result file is written, or skipped by the serialization.
C7_DayIndependence ==
    last.op = "run"
    => /\ last.tr.raised \cap last.tr.wroteRes = {}
       /\ \A d \in last.tr.evaluated : d \in last.tr.wroteRes \cup last.tr.skipped

\* C8: in a run that reaches save_results, a day whose serialization raises
\* ValueError is skipped and gets no result file in this run, and every
\* other day of the results, before or after it, gets its result file with
\* its results.
C8_SaveSkipsOnlyFailingDays ==
    (last.op = "run" /\ last.err = "")
    => /\ DOMAIN last.results = ExpDates
       /\ \A d \in DOMAIN last.results :
             IF DumpRaisesValueError(last.results[d])
             THEN /\ d \in last.tr.skipped
                  /\ d \notin last.tr.wroteRes
                  /\ <<exp.location, d>> \notin last.pre.res
                        => ~resFile[<<exp.location, d>>].exists
             ELSE /\ d \in last.tr.wroteRes
                  /\ d \notin last.tr.skipped
                  /\ resFile[<<exp.location, d>>] =
                        [exists |-> TRUE, val |-> last.results[d]]

\* C8 witness: a run over two days skipped one day and wrote the other
C8_Witness ==
    /\ last.op = "run"
    /\ last.err = ""
    /\ last.tr.skipped # {}
    /\ last.tr.wroteRes # {}
    /\ \E d \in last.tr.wroteRes : resFile[<<exp.location, d>>].exists

\* C9: a run of an Experiment over one day or more whose location the
\* resolver does not find fails before any Source Adapter is called and
\* before any file is written.
C9_UnknownLocationFailsFirst ==
    (last.op = "run" /\ ExpDates # {} /\ ~get_lat_lon(exp.location).found)
    => /\ last.err # ""
       /\ last.tr.adapter = {}
       /\ last.tr.wroteRaw = {}
       /\ last.tr.wroteLoc = {}
       /\ ~last.tr.wroteIdx
       /\ last.tr.wroteRes = {}

\* C10: a Metric that returns for a source list containing "airnow" has
\* a score for every other source of the list and none keyed "airnow".
C10_NoScoreForObservations ==
    (/\ last.op \in Metrics
     /\ last.err = ""
     /\ "airnow" \in Range(exp.forecasts.names))
    => /\ "airnow" \notin DOMAIN last.val
       /\ Range(exp.forecasts.names) \ {"airnow"} \subseteq DOMAIN last.val

(***************************************************************************)
(* The metrics as functions of the hourly readings.  A metric object is    *)
(* made with its hours_to_include; the day's readings are given hour by    *)
(* hour, each hour a list of PM25 values (the empty list: no reading       *)
(* matches that hour).                                                     *)
(***************************************************************************)
\* longest evaluation window of a metric object
MaxWindow == 4

\* the rows of a location's data with the PM25 values window[i] at hour
\* hrs[i], one row per value
RECURSIVE WindowReadings(_, _)
WindowReadings(hrs, window) ==
    LET hour(h, values) ==
            [p \in DOMAIN values |->
                [Latitude |-> 0, Longitude |-> 0, ValidTime |-> h, PM25 |-> values[p]]]
    IN  IF hrs = <<>> THEN <<>>
        ELSE hour(Head(hrs), Head(window)) \o WindowReadings(Tail(hrs), Tail(window))

\* plotters.confusion_matrix: results maps each day to its results; every
\* key of the smoke-day result is tallied, "observed" and "persistence" too
confusion_matrix(results) ==
    LET forecasts == UNION {DOMAIN results[d].smokeday : d \in DOMAIN results}
        days(f, result, observed) ==
            Cardinality({d \in DOMAIN results :
                            /\ f \in DOMAIN results[d].smokeday
                            /\ results[d].smokeday[f] = result
                            /\ results[d].smokeday["observed"] = observed})
    IN  [true_positives |-> [f \in forecasts |-> days(f, TRUE, TRUE)],
         false_positives |-> [f \in forecasts |-> days(f, TRUE, FALSE)],
         false_negatives |-> [f \in forecasts |-> days(f, FALSE, TRUE)],
         true_negatives |-> [f \in forecasts |-> days(f, FALSE, FALSE)]]

update_confusion_matrix(matrix, predicted, observed) ==
    IF predicted /\ observed THEN [matrix EXCEPT !.TP = @ + 1]
    ELSE IF predicted THEN [matrix EXCEPT !.FP = @ + 1]
    ELSE IF observed THEN [matrix EXCEPT !.FN = @ + 1]
    ELSE [matrix EXCEPT !.TN = @ + 1]

\* the loop of make_latex_tables_confusion_matrix.py over the result files
\* of a city, and the pop of "airnow" after it
RECURSIVE confusion_matrices(_, _)
confusion_matrices(files, matrices) ==
    LET models(file) == DOMAIN file.smokeday \ {"observed"}
        observed(file) ==
            IF "observed" \in DOMAIN file.smokeday THEN file.smokeday["observed"]
            ELSE FALSE
        before(m) == IF m \in DOMAIN matrices THEN matrices[m]
                     ELSE [TP |-> 0, FP |-> 0, FN |-> 0, TN |-> 0]
        tally(file) ==
            [m \in DOMAIN matrices \cup models(file) |->
                IF m \in models(file)
                THEN update_confusion_matrix(before(m), file.smokeday[m], observed(file))
                ELSE matrices[m]]
    IN  IF files = <<>> THEN [m \in DOMAIN matrices \ {"airnow"} |-> matrices[m]]
        ELSE confusion_matrices(Tail(files), tally(Head(files)))

\* a metric object with a window of 1 .. MaxWindow hours, and a day's
\* readings: the examples of the documentation, and every window over a few
\* values on both sides of the threshold
InitMetric ==
    /\ InitFiles
    /\ \E n \in 1 .. MaxWindow :
        /\ hours_to_include = [i \in 1 .. n |-> WindowStart + i - 1]
        /\ arg \in {[observed |-> o, predicted |-> p, persistence |-> q] :
                      o \in [1 .. n -> {<<>>, <<10>>, <<40>>}]
                            \cup {x \in {<< <<50>>, <<10>>, <<30>> >>,
                                         << <<10>>, <<20>>, <<40>>, <<15>> >>} : Len(x) = n},
                      p \in [1 .. n -> {<<>>, <<10>>, <<35>>, <<30, 41>>}]
                            \cup {x \in {<< <<5>>, <<40>>, <<20>> >>,
                                         << <<10>>, <<30>>, <<20>>, <<30>> >>} : Len(x) = n},
                      q \in {<<>>, <<40>>}}
    /\ ret = [op |-> "none", metric |-> "", val |-> EmptyMap, matrix |-> <<>>]

\* metric(day_data) on the day's location data, once for a day
ScoreDay(metric) ==
    LET monitor_readings ==
            WindowReadings(<<persistence_hour>> \o hours_to_include,
                           <<arg.persistence>> \o arg.observed)
        rows == [k \in {"geoscf"} |-> WindowReadings(hours_to_include, arg.predicted)]
    IN  /\ ret.op = "none"
        /\ ret' = [op |-> "call", metric |-> metric,
                   val |-> CASE metric = "rmse" -> RMSE_scores(monitor_readings, rows)
                             [] metric = "mee" -> MEE_scores(monitor_readings, rows)
                             [] OTHER -> IsSmokeDay_scores(monitor_readings, rows),
                   matrix |-> <<>>]
        /\ UNCHANGED <<rawFile, locFile, idxFile, resFile, ent, exp, last,
                       hours_to_include, arg>>

\* confusion_matrix(results) on the results of a run over this one day
ConfusionMatrix ==
    /\ ret.op = "call"
    /\ ret.metric = "smokeday"
    /\ ret' = [ret EXCEPT !.op = "confusion_matrix",
                          !.matrix = confusion_matrix([d \in {1} |-> [smokeday |-> ret.val]])]
    /\ UNCHANGED <<rawFile, locFile, idxFile, resFile, ent, exp, last,
                   hours_to_include, arg>>

\* the table script on the result file of an experiment whose one metric is
\* IsSmokeDay
LatexTable ==
    /\ ret.op = "call"
    /\ ret.metric = "smokeday"
    /\ ret' = [ret EXCEPT !.op = "latex_table",
                          !.matrix = confusion_matrices(<<[smokeday |-> ret.val]>>,
                                                        [m \in {} |-> 0])]
    /\ UNCHANGED <<rawFile, locFile, idxFile, resFile, ent, exp, last,
                   hours_to_include, arg>>

NextMetric ==
    \/ \E metric \in Metrics : ScoreDay(metric)
    \/ ConfusionMatrix
    \/ LatexTable

SpecMetric == InitMetric /\ [][NextMetric]_vars

\* the hourly averages of a window, and whether every hour has a reading
HourlyAverages(window) ==
    [i \in DOMAIN window |->
        np_mean([p \in DOMAIN window[i] |-> Int2Num(window[i][p])])]
Complete(window) == \A i \in DOMAIN window : window[i] # <<>>

\* C11: the Mean Excess Exposure of a prediction source is the observed
\* average at the first hour at which the predicted average is lowest, minus
\* the lowest observed average; it is never negative; observed [50, 10, 30]
\* with predicted [5, 40, 20] scores 40; the persistence score is the mean
\* of the observed averages minus their lowest.
C11_MeanExcessExposure ==
    (ret.op = "call" /\ ret.metric = "mee"
        /\ Complete(arg.observed) /\ Complete(arg.predicted))
    => LET observed == HourlyAverages(arg.observed)
           predicted == HourlyAverages(arg.predicted)
           best == CHOOSE h \in DOMAIN predicted :
                       /\ \A j \in DOMAIN predicted : ~NumLess(predicted[j], predicted[h])
                       /\ \A j \in 1 .. h - 1 : NumLess(predicted[h], predicted[j])
           lowest == CHOOSE h \in DOMAIN observed :
                       \A j \in DOMAIN observed : ~NumLess(observed[j], observed[h])
       IN  /\ ret.val["geoscf"] = NumSub(observed[best], observed[lowest])
           /\ ~NumLess(ret.val["geoscf"], Int2Num(0))
           /\ ret.val["persistence"] = NumSub(np_mean(observed), observed[lowest])
           /\ (/\ arg.observed = << <<50>>, <<10>>, <<30>> >>
               /\ arg.predicted = << <<5>>, <<40>>, <<20>> >>)
              => ret.val["geoscf"] = Int2Num(40)

C11_Witness ==
    /\ ret.op = "call"
    /\ ret.metric = "mee"
    /\ arg.observed = << <<50>>, <<10>>, <<30>> >>
    /\ arg.predicted = << <<5>>, <<40>>, <<20>> >>
    /\ ret.val["geoscf"] = Int2Num(40)

C13_MissingDataPropagates ==
    (ret.op = "call" /\ ret.metric \in {"rmse", "mee"}
        /\ (~Complete(arg.predicted) \/ ~Complete(arg.observed)))
    => ret.val["geoscf"].nan

\* C14: a day on which the window of a prediction source has a missing hour
\* adds to none of the source's true-positive, false-positive, false-negative
\* and true-negative counts, in the tally of plotters.confusion_matrix and in
\* the tally of the table script.
C14_UndefinedNotTallied ==
    ~Complete(arg.predicted)
    => /\ ret.op = "confusion_matrix"
          => \A c \in DOMAIN ret.matrix : ret.matrix[c]["geoscf"] = 0
       /\ ret.op = "latex_table"
          => \/ "geoscf" \notin DOMAIN ret.matrix
             \/ ret.matrix["geoscf"] = [TP |-> 0, FP |-> 0, FN |-> 0, TN |-> 0]

(***************************************************************************)
(* The spatial matchers as functions of a Reading Set, a target point, a   *)
(* distance and a number of neighbours.                                    *)
(***************************************************************************)
\* most rows of a Reading Set given to a matcher
MaxRows == 3

\* Reading Sets of 0 .. MaxRows rows of stations 8, 48, 56 and 88 km north of
\* Boston at two hours; Albany is more than 100 km from all of them
InitMatch ==
    /\ InitFiles
    /\ hours_to_include = PublishedWindow
    /\ arg \in {[readings |-> r, coordinates |-> get_lat_lon(c),
                 max_distance |-> d, max_neighbors |-> k] :
                    r \in UNION {[1 .. n ->
                                    {[AQSID |-> s, Latitude |-> StationPoint(s).lat,
                                      Longitude |-> StationPoint(s).lon,
                                      ValidTime |-> h, PM25 |-> s + h] :
                                        s \in {1, 6, 7, 11}, h \in {13, 14}}] :
                                 n \in 0 .. MaxRows},
                    c \in {"Boston", "Albany"},
                    d \in {48, 50},
                    k \in 1 .. MaxRows}
    /\ ret = [fn |-> "", out |-> Ok(<<>>)]

FindNearbyPredictions ==
    /\ ret' = [fn |-> "find_nearby_predictions",
               out |-> find_nearby_predictions(arg.readings, arg.coordinates,
                                               arg.max_distance)]
    /\ UNCHANGED <<rawFile, locFile, idxFile, resFile, ent, exp, last,
                   hours_to_include, arg>>

FindNearbyMonitors ==
    /\ ret' = [fn |-> "find_nearby_monitors",
               out |-> find_nearby_monitors(arg.readings, arg.coordinates,
                                            arg.max_distance, arg.max_neighbors)]
    /\ UNCHANGED <<rawFile, locFile, idxFile, resFile, ent, exp, last,
                   hours_to_include, arg>>

NextMatch ==
    \/ FindNearbyPredictions
    \/ FindNearbyMonitors

SpecMatch == InitMatch /\ [][NextMatch]_vars

\* C15: find_nearby_predictions returns exactly the rows of the Reading Set
\* whose distance to the target point is at most max_distance, for every
\* Reading Set, the empty one included.
C15_RadiusMode ==
    (ret.fn = "find_nearby_predictions" /\ arg.coordinates.found)
    => /\ ret.out.ok
       /\ ret.out.rows =
            SelectSeq(arg.readings,
                LAMBDA r : Abs(r.Latitude - arg.coordinates.lat)
                             + Abs(r.Longitude - arg.coordinates.lon)
                           <= arg.max_distance * UnitsPerKm)

\* C16: for every Reading Set with at least one station, whatever the number
\* of stations is relative to max_neighbors, find_nearby_monitors returns the
\* rows of at most max_neighbors stations, all within max_distance, and no
\* station within max_distance is left out unless max_neighbors stations at
\* most as far as it are returned.
C16_NearestKMode ==
    (ret.fn = "find_nearby_monitors" /\ arg.coordinates.found /\ arg.readings # <<>>)
    => LET dist(r) == DistUnits(r.Latitude, r.Longitude, arg.coordinates)
           near(r) == dist(r) <= arg.max_distance * UnitsPerKm
           returned == {r.AQSID : r \in Range(ret.out.rows)}
       IN  /\ ret.out.ok
           /\ Cardinality(returned) <= arg.max_neighbors
           /\ \A r \in Range(ret.out.rows) : near(r)
           /\ ret.out.rows = SelectSeq(arg.readings, LAMBDA r : r.AQSID \in returned)
           /\ \A e \in Range(arg.readings) :
                (near(e) /\ e.AQSID \notin returned)
                => /\ Cardinality(returned) = arg.max_neighbors
                   /\ \A r \in Range(ret.out.rows) : dist(r) <= dist(e)

\* C17: an empty Reading Set given to find_nearby_monitors or to
\* find_nearby_predictions gives an empty Reading Set, not an error.
C17_EmptyInputIsEmptyResult ==
    (ret.fn # "" /\ arg.coordinates.found /\ arg.readings = <<>>)
    => (ret.out.ok /\ ret.out.rows = <<>>)

(***************************************************************************)
(* The grid index codec called on Reading Sets of any shape: a caller      *)
(* encodes a prediction, and decodes the prediction it encoded last.       *)
(***************************************************************************)
InitCodec ==
    /\ InitFiles
    /\ hours_to_include = PublishedWindow
    /\ arg = [op |-> "none", x |-> <<>>]
    /\ ret = Ok(<<>>)

\* latlon_to_idx_convert(x)
Encode(x) ==
    /\ LET step(r) ==
            /\ idxFile' = r.index
            /\ ret' = r.out
       IN  step(latlon_to_idx_convert(idxFile, x))
    /\ arg' = [op |-> "encode", x |-> x]
    /\ UNCHANGED <<rawFile, locFile, resFile, ent, exp, last, hours_to_include>>

\* idx_to_latlon_convert on the prediction encoded last
Decode ==
    /\ arg.op = "encode"
    /\ ret.ok
    /\ ret' = idx_to_latlon_convert(idxFile, ret.rows)
    /\ arg' = [arg EXCEPT !.op = "decode"]
    /\ UNCHANGED <<rawFile, locFile, idxFile, resFile, ent, exp, last, hours_to_include>>

\* predictions of 0 .. MaxRows rows at three points; the first two are
\* different points with the same "%.6f" rounding
NextCodec ==
    \/ \E x \in UNION {[1 .. n ->
                          {[Latitude |-> c[1], Longitude |-> c[2],
                            ValidTime |-> 13, PM25 |-> 12] :
                              c \in {<<0, 0>>, <<0, 4>>, <<0, 10>>}}] :
                       n \in 0 .. MaxRows} : Encode(x)
    \/ Decode

SpecCodec == InitCodec /\ [][NextCodec]_vars

\* the (lat, lon) pair of a row rounded to 6 decimal places
RoundedPair(r) == <<Round6(r.Latitude), Round6(r.Longitude)>>

\* C18: for any Reading Set x, latlon_to_idx_convert followed by
\* idx_to_latlon_convert succeeds and gives the rows of x in their order with
\* each (lat, lon) pair rounded to 6 decimal places, the columns Latitude and
\* Longitude present and LatLonIdx gone.
C18_CodecRoundTrip ==
    /\ arg.op = "encode" => ret.ok
    /\ arg.op = "decode"
       => /\ ret.ok
          /\ ret.rows = [i \in DOMAIN arg.x |->
                            [Latitude |-> RoundedPair(arg.x[i])[1],
                             Longitude |-> RoundedPair(arg.x[i])[2],
                             ValidTime |-> arg.x[i].ValidTime,
                             PM25 |-> arg.x[i].PM25]]

\* C19: the index file is written only while it does not exist, from the
\* Reading Set being encoded and before that set is encoded against it; once
\* it exists no encode or decode changes it, and two encodes in a row give
\* the same index to the same rounded pair.
C19_IndexBuiltOnce ==
    [][/\ idxFile.exists => idxFile' = idxFile
       /\ (~idxFile.exists /\ idxFile'.exists)
          => /\ arg'.op = "encode"
             /\ Range(idxFile'.lines) = {RoundedPair(r) : r \in Range(arg'.x)}
       /\ (arg'.op = "encode" /\ ret'.ok)
          => \A i \in DOMAIN arg'.x :
                idxFile'.lines[ret'.rows[i].LatLonIdx + 1] = RoundedPair(arg'.x[i])
       /\ (arg.op = "encode" /\ ret.ok /\ arg'.op = "encode" /\ ret'.ok)
          => \A i \in DOMAIN arg.x : \A j \in DOMAIN arg'.x :
                RoundedPair(arg.x[i]) = RoundedPair(arg'.x[j])
                => ret.rows[i].LatLonIdx = ret'.rows[j].LatLonIdx]_vars

\* an encode against an index that was built from another Reading Set
C19_Witness ==
    /\ arg.op = "encode"
    /\ ret.ok
    /\ arg.x # <<>>
    /\ Range(idxFile.lines) # {RoundedPair(r) : r \in Range(arg.x)}

(***************************************************************************)
(* HRRRForecast objects over a data directory whose index file can be      *)
(* missing while encoded files are present.                                *)
(***************************************************************************)
\* the data directory is outside the program: the index file is removed
\* from it (or the encoded files were copied without it)
RemoveIndexFile ==
    /\ idxFile.exists
    /\ idxFile' = NoIndex
    /\ last' = Record("remove_index", 0, NoObject, NoTrace, Ok(<<>>), "", EmptyMap,
                      NoResults)
    /\ UNCHANGED <<rawFile, locFile, resFile, ent, exp, call>>

NextHrrr ==
    \/ \E i \in EntIds, location \in Locations, date \in Dates :
          Construct(i, "hrrr", location, date)
    \/ \E i \in EntIds : \E ad \in AdapterOutcomes("hrrr") : AccessData(i, ad)
    \/ \E i \in EntIds : \E ad \in AdapterOutcomes("hrrr") : AccessLocationData(i, ad)
    \/ RemoveIndexFile

SpecHrrr == Init /\ [][NextHrrr]_vars

\* C20: a read of HRRRForecast.data or location_data that has to decode a
\* file while the index file does not exist raises FileNotFoundError, leaves
\* the index file absent, and leaves the artifact of the object unset.
C20_DecodeWithoutIndexIsFatal ==
    LET before == last.obj
        after == ent[last.id].obj
        fatal == /\ last.err = "FileNotFoundError"
                 /\ ~last.tr.wroteIdx
                 /\ ~idxFile.exists
    IN  /\ (/\ last.op = "data"
            /\ ~before.data.set
            /\ RawKey(before) \in last.pre.raw
            /\ ~last.pre.idx)
           => (fatal /\ ~after.data.set)
        /\ (/\ last.op = "location_data"
            /\ ~before.location_data.set
            /\ LocKey(before) \in last.pre.loc
            /\ ~last.pre.idx)
           => (fatal /\ ~after.location_data.set)
        /\ (/\ last.op = "location_data"
            /\ ~before.location_data.set
            /\ LocKey(before) \notin last.pre.loc
            /\ ~before.data.set
            /\ RawKey(before) \in last.pre.raw
            /\ ~last.pre.idx)
           => (fatal /\ ~after.location_data.set /\ ~after.data.set)

\* a read of location_data found the location file and no index file
C20_Witness ==
    /\ last.op = "location_data"
    /\ ~last.obj.location_data.set
    /\ LocKey(last.obj) \in last.pre.loc
    /\ ~last.pre.idx
    /\ last.err = "FileNotFoundError"
    /\ ~idxFile.exists
    /\ ~ent[last.id].obj.location_data.set

(***************************************************************************)
(* Two processes that each hold a Forecast object of the same source,      *)
(* location and date and read its data.  DataFrame.to_csv opens the path   *)
(* for writing, which leaves an empty file, and the rows reach the file    *)
(* when the buffer is written out.                                         *)
(***************************************************************************)
InitRace ==
    /\ rawFile = [k \in RawKeys |-> Absent]
    /\ locFile = [k \in LocKeys |-> Absent]
    /\ idxFile = NoIndex
    /\ resFile = [k \in Locations \X Dates |-> NoResult]
    /\ exp = NoExperiment
    /\ last = Record("start", 0, NoObject, NoTrace, Ok(<<>>), "", EmptyMap, NoResults)
    /\ \E name \in {"airnow", "geoscf", "naqfc"}, date \in Dates :
          ent = [p \in EntIds |->
                    [made |-> TRUE, obj |-> build_forecast(name, "Boston", date)]]
    /\ hours_to_include = PublishedWindow
    /\ arg = [p \in EntIds |-> [pc |-> "data", fetched |-> <<>>]]
    /\ ret = [p \in EntIds |-> Ok(<<>>)]

\* Forecast.data with no data held: download() tests is_downloaded()
IsDownloaded(p) ==
    /\ arg[p].pc = "data"
    /\ arg' = [arg EXCEPT ![p].pc = IF is_downloaded(Now, ent[p].obj) THEN "read"
                                    ELSE "fetch"]
    /\ UNCHANGED <<rawFile, locFile, idxFile, resFile, ent, exp, last,
                   hours_to_include, ret>>

\* download_fn(date), then to_csv opens the path for writing
OpenFile(p, ad) ==
    /\ arg[p].pc = "fetch"
    /\ LET step(r) ==
            IF r.raised # ""
            THEN /\ arg' = [arg EXCEPT ![p].pc = "failed"]
                 /\ ret' = [ret EXCEPT ![p] = Err(r.raised)]
                 /\ UNCHANGED rawFile
            ELSE /\ arg' = [arg EXCEPT ![p] = [pc |-> "write", fetched |-> r.rows]]
                 /\ rawFile' = [rawFile EXCEPT ![RawKey(ent[p].obj)] = File(<<>>)]
                 /\ UNCHANGED ret
       IN  step(download_fn(Now, ent[p].obj, ad))
    /\ UNCHANGED <<locFile, idxFile, resFile, ent, exp, last, hours_to_include>>

\* to_csv writes the rows out and closes the file
WriteFile(p) ==
    /\ arg[p].pc = "write"
    /\ rawFile' = [rawFile EXCEPT ![RawKey(ent[p].obj)] = File(arg[p].fetched)]
    /\ arg' = [arg EXCEPT ![p].pc = "read"]
    /\ UNCHANGED <<locFile, idxFile, resFile, ent, exp, last, hours_to_include, ret>>

\* pd.read_csv(self.datapath): EmptyDataError for a file with no content
ReadFile(p) ==
    /\ arg[p].pc = "read"
    /\ LET step(out) ==
            /\ ret' = [ret EXCEPT ![p] = out]
            /\ ent' = [ent EXCEPT ![p].obj.data = IF out.ok THEN Some(out.rows) ELSE @]
       IN  step(IF rawFile[RawKey(ent[p].obj)] = File(<<>>) THEN Err("EmptyDataError")
                ELSE read_csv(rawFile[RawKey(ent[p].obj)]))
    /\ arg' = [arg EXCEPT ![p].pc = "done"]
    /\ UNCHANGED <<rawFile, locFile, idxFile, resFile, exp, last, hours_to_include>>

NextRace ==
    \/ \E p \in EntIds : IsDownloaded(p)
    \/ \E p \in EntIds : \E ad \in AdapterOutcomes(ent[p].obj.name) : OpenFile(p, ad)
    \/ \E p \in EntIds : WriteFile(p)
    \/ \E p \in EntIds : ReadFile(p)

SpecRace == InitRace /\ [][NextRace]_vars

\* C21: of two processes that race to fill the same raw cache key, neither
\* reads a file that is only partly written, and each one that reads the
\* file returns the complete Reading Set of the day.
C21_RaceCannotCorrupt ==
    \A p \in EntIds :
        arg[p].pc = "done"
        => /\ ret[p].ok
           /\ ret[p].rows = Published(ent[p].obj.name, ent[p].obj.date)

(***************************************************************************)
(* Two processes that each encode a prediction while no index file exists: *)
(* the day a download fetched, or the rows build_location_data kept.       *)
(* np.savetxt opens the path for writing and fills it afterwards.          *)
(***************************************************************************)
InitIndexRace ==
    /\ InitFiles
    /\ hours_to_include = PublishedWindow
    /\ arg \in [EntIds ->
                 {[pc |-> "encode", x |-> x] :
                    x \in {Published("hrrr", 1),
                           find_nearby_predictions(Published("hrrr", 1),
                               get_lat_lon("Boston"), HRRRMaxDistance).rows}}]
    /\ ret = [p \in EntIds |-> [wrote |-> FALSE, out |-> Ok(<<>>)]]

\* latlon_to_idx_convert: os.path.exists(self.latlon_idx_path)
IndexExists(p) ==
    /\ arg[p].pc = "encode"
    /\ arg' = [arg EXCEPT ![p].pc = IF idxFile.exists THEN "load" ELSE "build"]
    /\ UNCHANGED <<rawFile, locFile, idxFile, resFile, ent, exp, last,
                   hours_to_include, ret>>

\* build_latlon_idx: np.savetxt opens the path
OpenIndex(p) ==
    /\ arg[p].pc = "build"
    /\ idxFile' = [exists |-> TRUE, lines |-> <<>>]
    /\ ret' = [ret EXCEPT ![p].wrote = TRUE]
    /\ arg' = [arg EXCEPT ![p].pc = "write"]
    /\ UNCHANGED <<rawFile, locFile, resFile, ent, exp, last, hours_to_include>>

\* np.savetxt writes the lines and closes the file
WriteIndex(p) ==
    /\ arg[p].pc = "write"
    /\ idxFile' = build_latlon_idx(arg[p].x)
    /\ arg' = [arg EXCEPT ![p].pc = "load"]
    /\ UNCHANGED <<rawFile, locFile, resFile, ent, exp, last, hours_to_include, ret>>

\* np.loadtxt and the lookup of every row
LoadIndex(p) ==
    /\ arg[p].pc = "load"
    /\ ret' = [ret EXCEPT ![p].out = latlon_to_idx_convert(idxFile, arg[p].x).out]
    /\ arg' = [arg EXCEPT ![p].pc = "done"]
    /\ UNCHANGED <<rawFile, locFile, idxFile, resFile, ent, exp, last, hours_to_include>>

NextIndexRace ==
    \/ \E p \in EntIds : IndexExists(p)
    \/ \E p \in EntIds : OpenIndex(p)
    \/ \E p \in EntIds : WriteIndex(p)
    \/ \E p \in EntIds : LoadIndex(p)

SpecIndexRace == InitIndexRace /\ [][NextIndexRace]_vars

\* C22: when two processes start to encode while no index file exists,
\* exactly one of them writes the file, and both encode every coordinate to
\* the same index, the one the file holds.
C22_OneIndexWriter ==
    /\ Cardinality({p \in EntIds : ret[p].wrote}) <= 1
    /\ (\A p \in EntIds : arg[p].pc = "done")
       => /\ Cardinality({p \in EntIds : ret[p].wrote}) = 1
          /\ \A p \in EntIds :
                /\ ret[p].out.ok
                /\ \A i \in DOMAIN arg[p].x :
                      idxFile.lines[ret[p].out.rows[i].LatLonIdx + 1]
                        = RoundedPair(arg[p].x[i])

\* C23: an Experiment from start date s to end date e with s <= e holds one
\* DailyData for each of the days s, s + 1, ..., e in order; its run
\* evaluates the metrics against every one of them and writes one result
\* file for every day.
C23_DateRange ==
    (exp.built /\ exp.start_date <= exp.end_date)
    => /\ Len(exp.daily_data) = exp.end_date - exp.start_date + 1
       /\ \A i \in DOMAIN exp.daily_data :
             exp.daily_data[i].date = exp.start_date + i - 1
       /\ (/\ last.op = "run"
           /\ get_lat_lon(exp.location).found
           /\ "airnow" \in Range(exp.forecasts.names))
          => /\ last.tr.evaluated = ExpDates
             /\ \A d \in ExpDates :
                   /\ DOMAIN last.results[d] = Range(exp.metrics)
                   /\ resFile[<<exp.location, d>>].exists

\* C24: evaluating a Metric leaves the Experiment and the source list of
\* every DailyData as they were, and a Metric evaluated on a day while the
\* files stay as they are gives the result it gave the last time: the one
\* of the same Metric evaluated on that day directly before, and the one
\* the run before it computed for that Metric and day among the others.
C24_MetricIsPure ==
    [][(last'.op \in Metrics /\ last'.id \in DOMAIN exp.daily_data)
       => /\ exp' = exp
          /\ (/\ Now' = Now
              /\ last.op = last'.op
              /\ last.id = last'.id)
             => /\ last'.err = last.err
                /\ last'.val = last.val
          /\ (/\ Now' = Now
              /\ last.op = "run"
              /\ last.err = "")
             => /\ last'.err = ""
                /\ last'.val = last.results[exp.daily_data[last'.id].date][last'.op]]_vars

\* a Metric that returned scores for a source list of three is evaluated
\* again on the same day, from the files the first evaluation left
C24_Witness ==
    /\ last.op \in Metrics
    /\ last.err = ""
    /\ Cardinality(DOMAIN last.val) >= 4
    /\ last.tr.wroteRaw = {}
    /\ last.tr.wroteLoc = {}
    /\ last.tr.adapter = {}

\* C25: the index file never holds one rounded (lat, lon) pair on two
\* lines, so line i (index i - 1) of its N lines is the only one for its
\* pair, also when the Reading Set it was built from has two unrounded pairs
\* with the same rounding; and every encoded row carries the index of a line
\* that holds its rounded pair.
C25_IndexInjective ==
    /\ \A i \in DOMAIN idxFile.lines : \A j \in DOMAIN idxFile.lines :
          idxFile.lines[i] = idxFile.lines[j] => i = j
    /\ (arg.op = "encode" /\ ret.ok)
       => \A i \in DOMAIN arg.x :
             /\ ret.rows[i].LatLonIdx \in 0 .. Len(idxFile.lines) - 1
             /\ idxFile.lines[ret.rows[i].LatLonIdx + 1] = RoundedPair(arg.x[i])

(***************************************************************************)
(* Forecast objects built with matching parameters of the caller's choice  *)
(* over one data directory.                                                *)
(***************************************************************************)
\* AirNowForecast(location, date, data_directory, _max_distance=...,
\* _max_neighbors=...) or GEOSCFForecast(..., _max_distance=...)
ConstructWith(i, name, location, date, max_distance, max_neighbors) ==
    /\ ~ent[i].made
    /\ \A j \in 1 .. i - 1 : ent[j].made
    /\ ent' = [ent EXCEPT ![i] = [made |-> TRUE,
                                  obj |-> NewForecast(name, location, date,
                                                      max_distance, max_neighbors)]]
    /\ last' = Record("new", i, ent'[i].obj, NoTrace, Ok(<<>>), "", EmptyMap, NoResults)
    /\ UNCHANGED <<rawFile, locFile, idxFile, resFile, exp, call>>

NextParams ==
    \/ \E i \in EntIds, name \in {"airnow", "geoscf"}, date \in Dates :
          \E max_distance \in {DefaultMaxDistance(name), CAMSMaxDistance},
             max_neighbors \in IF name = "airnow" THEN {AirNowMaxNeighbors, 2}
                               ELSE {AirNowMaxNeighbors} :
             ConstructWith(i, name, "Boston", date, max_distance, max_neighbors)
    \/ \E i \in EntIds : \E ad \in AdapterOutcomes(ent[i].obj.name) :
          AccessLocationData(i, ad)

SpecParams == Init /\ [][NextParams]_vars

\* C26: the location file of (source, location, date) is built with the
\* max_distance and max_neighbors of the object that finds it absent; an
\* object of the same source, location and date that finds it present,
\* whatever its own max_distance and max_neighbors, does not call the
\* Spatial Matcher, leaves the file as it is and returns the rows of the
\* file, so two objects of one location key hold the same Reading Set.
C26_LocationKeyIgnoresParameters ==
    [][last'.op = "location_data"
       => /\ locFile[LocKey(last'.obj)].exists
             => /\ last'.tr.matcher = {}
                /\ locFile' = locFile
                /\ last'.out = read_csv(locFile[LocKey(last'.obj)])
          /\ (~locFile[LocKey(last'.obj)].exists /\ locFile'[LocKey(last'.obj)].exists)
             => locFile'[LocKey(last'.obj)].rows
                  = find_neighbor_fn(Now', last'.obj, NoAnswer).out.rows
          /\ \A i \in EntIds : \A j \in EntIds :
                (/\ LocKey(ent'[i].obj) = LocKey(ent'[j].obj)
                 /\ ent'[i].obj.location_data.set
                 /\ ent'[j].obj.location_data.set)
                => ent'[i].obj.location_data = ent'[j].obj.location_data]_vars

\* an object read location_data from the file another object of its key
\* built with other parameters: the rows it returned are not the ones its
\* own parameters select
C26_Witness ==
    /\ last.op = "location_data"
    /\ LocKey(last.obj) \in last.pre.loc
    /\ last.out.ok
    /\ last.tr.matcher = {}
    /\ \E j \in EntIds :
          /\ j # last.id
          /\ LocKey(ent[j].obj) = LocKey(last.obj)
          /\ <<ent[j].obj.max_distance, ent[j].obj.max_neighbors>>
                # <<last.obj.max_distance, last.obj.max_neighbors>>
    /\ last.out.rows # find_neighbor_fn(Now, last.obj, NoAnswer).out.rows

\* C27: a read of data or of location_data on an object whose raw file
\* (source, date) is present calls no Source Adapter and leaves the raw
\* files as they are, whatever the object's location; the read of data
\* returns the Reading Set that an object of the same source and date and
\* of another location holds; and a read of location_data changes no
\* location file but the one of the object's own (source, location, date).
C27_RawKeyIgnoresLocation ==
    [][/\ (/\ last'.op \in {"data", "location_data"}
           /\ rawFile[RawKey(last'.obj)].exists)
          => /\ last'.tr.adapter = {}
             /\ rawFile' = rawFile
       /\ (last'.op = "data" /\ rawFile[RawKey(last'.obj)].exists)
          => \A j \in EntIds :
                (/\ ent[j].made
                 /\ RawKey(ent[j].obj) = RawKey(last'.obj)
                 /\ ent[j].obj.location # last'.obj.location
                 /\ ent[j].obj.data.set)
                => last'.out = Ok(ent[j].obj.data.rows)
       /\ last'.op \in {"data", "location_data"}
          => \A k \in LocKeys :
                k # LocKey(last'.obj) => locFile'[k] = locFile[k]]_vars

\* an object for one location read location_data from the raw file that an
\* object of the same source and date for another location had stored: no
\* adapter call, both hold the same raw Reading Set, and each location has
\* its own location file
C27_Witness ==
    /\ last.op = "location_data"
    /\ RawKey(last.obj) \in last.pre.raw
    /\ LocKey(last.obj) \notin last.pre.loc
    /\ last.tr.adapter = {}
    /\ last.out.ok
    /\ locFile[LocKey(last.obj)].exists
    /\ \E j \in EntIds :
          /\ ent[j].made
          /\ RawKey(ent[j].obj) = RawKey(last.obj)
          /\ ent[j].obj.location # last.obj.location
          /\ locFile[LocKey(ent[j].obj)].exists
          /\ ent[j].obj.data.set
          /\ ent[last.id].obj.data = ent[j].obj.data
          /\ ent[j].obj.data.rows # <<>>

\* C28: every DailyData of an Experiment built without a forecasts
\* argument has the default source list airnow, geoscf, hrrr, cams: a read
\* of its forecasts gives one Forecast per default source without an
\* error, and a Metric called on it, or the run, reads the sources of that
\* list.
C28_DefaultSources ==
    (exp.built /\ exp.forecasts.none)
    => /\ \A i \in DOMAIN exp.daily_data :
             DailyData_forecasts(exp.daily_data[i])
               = [err |-> "", names |-> DefaultForecasts.names]
       /\ (last.op \in Metrics \cup {"run"} /\ exp.daily_data # <<>>)
          => /\ last.err # "TypeError"
             /\ last.tr.adapter \cup last.tr.matcher # {}

====
